---- MODULE Spec2Model ----
(***************************************************************************)
(* Thread pool of multix (src/src/core.rs): the packed lifecycle/worker    *)
(* count word, the add_worker protocol, submission, the two shutdowns and  *)
(* the termination hand-off.  Client threads call the public operations;   *)
(* every access to the shared state word, to the queue, to the mutex or    *)
(* to the condition variable is one step.                                  *)
(*                                                                         *)
(* core.rs uses three modules of the crate that are not in src/ (atomic,   *)
(* lifecycle, worker) and the two_lock_queue channel.  Those are modelled  *)
(* from the specification (sections 4.1, 4.2, 4.3).                        *)
(***************************************************************************)
EXTENDS Integers, Sequences, FiniteSets

(* ------------------------------ bounds --------------------------------- *)
\* Number of public operations the clients call in one behaviour.
MaxOps == 3
\* Largest max_size a configuration may have.
MaxPool == 2
\* Largest queue_capacity a configuration may have.
MaxQueue == 1

Clients == {"c1", "c2"}
Jobs == 1..MaxOps
\* Worker thread slots: one more than any configuration allows, so that a
\* worker count above max_size would show.
Slots == 1..(MaxPool + 1)

(* -------------------------- lifecycle (3.1) ---------------------------- *)
Running == 0
Shutdown == 1
Stop == 2
Tidying == 3
Terminated == 4

\* atomic::CAPACITY = 2^N - 1, the largest worker count the word can hold.
CAPACITY == 3

SendOps == {"try_send", "send", "send_timeout"}

VARIABLES
    size, max_size, queue_capacity, timeout,  \* Config / TPBuilder
    state,        \* Inner.state: [lifecycle, wc], one atomic word
    queue,        \* jobs in the channel, head first
    open,         \* the channel has not been closed
    mutex,        \* holder of termination_mutex, or "free"
    cpc, cop, cjob, cfirst, cstate,   \* clients: position, operation, job, add_worker's job and `state`
    nops,         \* operations called so far
    jop, res,     \* per job: the operation that submitted it, its result
    late,         \* per job: the queue was already closed when it was submitted
    enq,          \* per job: it was placed in the queue
    adds,         \* per job: workers its submission spawned
    runs,         \* per job: run() invocations that returned
    wpc, wjob,    \* workers: position, job in hand (0: none)
    stopCalled,   \* shutdown_now() has been called
    tidied,       \* successful try_transition_to_tidying calls
    notified,     \* notify_all calls
    awaited,      \* an await_termination() call has returned
    panicked,     \* some job's run() has panicked
    afterTerm     \* operations called while the lifecycle was Terminated

cfg == <<size, max_size, queue_capacity, timeout>>
chan == <<queue, open>>
cli == <<cpc, cop, cjob, cfirst, cstate>>
jobv == <<jop, res, late, enq, adds, runs>>
wrk == <<wpc, wjob>>
hist == <<stopCalled, tidied, notified, awaited, panicked, afterTerm>>
vars == <<cfg, state, chan, mutex, cli, nops, jobv, wrk, hist>>

(* TPBuilder::build: size >= 1, size <= max_size; phase Running, wc 0. *)
Init ==
    /\ size \in 1..MaxPool
    /\ max_size \in size..MaxPool
    /\ queue_capacity \in 1..MaxQueue
    /\ timeout \in BOOLEAN
    /\ state = [lifecycle |-> Running, wc |-> 0]
    /\ queue = <<>>
    /\ open = TRUE
    /\ mutex = "free"
    /\ cpc = [c \in Clients |-> "idle"]
    /\ cop = [c \in Clients |-> "none"]
    /\ cjob = [c \in Clients |-> 0]
    /\ cfirst = [c \in Clients |-> 0]
    /\ cstate = [c \in Clients |-> [lifecycle |-> Running, wc |-> 0]]
    /\ nops = 0
    /\ jop = [j \in Jobs |-> "none"]
    /\ res = [j \in Jobs |-> "none"]
    /\ late = [j \in Jobs |-> FALSE]
    /\ enq = [j \in Jobs |-> FALSE]
    /\ adds = [j \in Jobs |-> 0]
    /\ runs = [j \in Jobs |-> 0]
    /\ wpc = [w \in Slots |-> "gone"]
    /\ wjob = [w \in Slots |-> 0]
    /\ stopCalled = FALSE
    /\ tidied = 0
    /\ notified = 0
    /\ awaited = FALSE
    /\ panicked = FALSE
    /\ afterTerm = {}

(* ---------------- atomic state word (4.1; crate module atomic) ---------- *)
WithWc(s, n) == [s EXCEPT !.wc = n]
WithLifecycle(s, l) == [s EXCEPT !.lifecycle = l]

\* compare_and_inc_worker_count(expected): succeeds iff the word is unchanged.
CasIncSucceeds(expected) == state = expected

\* try_transition_to_stop: lifecycle <= Shutdown becomes Stop; no change at >= Stop.
TryTransitionToStop(s) == IF s.lifecycle >= Stop THEN s ELSE WithLifecycle(s, Stop)

\* try_transition_to_tidying: only from Shutdown or Stop with no worker left.
CanTidy(s) == s.lifecycle \in {Shutdown, Stop} /\ s.wc = 0

(* ------------------- channel (4.2; two_lock_queue) ---------------------- *)
\* tx.try_send on a channel with `len` jobs.
TrySendOutcome(isOpen, len) ==
    IF ~isOpen THEN "Disconnected"
    ELSE IF len >= queue_capacity THEN "Full" ELSE "Ok"

(* ----------------------------- add_worker ------------------------------- *)
\* core.rs 342-346
Target(core) == IF core THEN size ELSE max_size

\* core.rs 348
CountRefused_OffByOne(s, core) == s.wc >= CAPACITY \/ s.wc > Target(core)
CountRefused(s, core) == s.wc >= CAPACITY \/ s.wc >= Target(core)

\* core.rs 333-350: one pass from 'retry down to the compare-and-swap.
Refused_NoLifecycle(s, core) == CountRefused(s, core)
Refused(s, core) == s.lifecycle >= Stop \/ CountRefused(s, core)

\* core.rs 352-360: the checks made on the word a failed compare-and-swap
\* returned, `lifecycle` being the phase read before it.
AfterCasFail_NoRecheck(s, lifecycle, core) == CountRefused(s, core)
AfterCasFail(s, lifecycle, core) ==
    IF s.lifecycle # lifecycle THEN Refused(s, core) ELSE CountRefused(s, core)

\* core.rs 263-267 and 174-176: a core worker is wanted.
WantsCore_Reversed(s) == s.wc > size
WantsCore(s) == s.wc < size

(* What the caller of add_worker does with its result. *)
\* core.rs 245-249, 253-257, 262-277, 173-185
AddDonePc(op, attached, ok) ==
    IF op = "prestart_all" THEN (IF ok THEN "pre_load" ELSE "idle")
    ELSE IF op = "send" /\ attached /\ ~ok THEN "tx_send"
    ELSE IF op = "send_timeout" /\ attached /\ ~ok THEN "tx_send_timeout"
    ELSE "idle"

AddDoneRes_SendFull(op, attached, ok) ==
    IF op \notin SendOps THEN "none"
    ELSE IF ~attached \/ ok THEN "Ok"
    ELSE IF op \in {"try_send", "send"} THEN "Full"
    ELSE "none"
AddDoneRes_OkOnErr(op, attached, ok) ==
    IF op \notin SendOps THEN "none"
    ELSE IF ~attached \/ ok THEN "Ok"
    ELSE IF op = "try_send" THEN "Ok"
    ELSE "none"
AddDoneRes(op, attached, ok) ==
    IF op \notin SendOps THEN "none"
    ELSE IF ~attached \/ ok THEN "Ok"
    ELSE IF op = "try_send" THEN "Full"
    ELSE "none"

\* core.rs 261-277: the arm try_send takes on the channel's answer.
TrySendArm_DisconnectedAsFull(outcome) ==
    CASE outcome = "Ok" -> "sent"
      [] outcome = "Disconnected" -> "add_load"
      [] outcome = "Full" -> "add_load"
TrySendArm(outcome) ==
    CASE outcome = "Ok" -> "sent"
      [] outcome = "Disconnected" -> "idle"
      [] outcome = "Full" -> "add_load"

\* core.rs 266, 274: the job handed to add_worker (0: None)
FirstJob_None(arm, j) == 0
FirstJob(arm, j) == IF arm = "add_load" THEN j ELSE 0

SetRes(j, r) == IF j = 0 \/ r = "none" THEN res ELSE [res EXCEPT ![j] = r]

FreeSlots == {w \in Slots : wpc[w] = "gone"}
NewSlot == CHOOSE w \in FreeSlots : \A v \in FreeSlots : w <= v

Note(op) == IF state.lifecycle = Terminated THEN afterTerm \cup {op} ELSE afterTerm

(* ------------------------------ clients --------------------------------- *)
\* Sender::try_send / send / send_timeout up to tx.try_send (core.rs 244-261)
Submit(c, op) ==
    LET j == nops + 1
        out == TrySendOutcome(open, Len(queue))
        arm == TrySendArm(out)
    IN  /\ cpc[c] = "idle" /\ nops < MaxOps /\ op \in SendOps
        /\ nops' = j
        /\ jop' = [jop EXCEPT ![j] = op]
        /\ late' = [late EXCEPT ![j] = ~open]
        /\ cop' = [cop EXCEPT ![c] = IF arm = "idle" THEN "none" ELSE op]
        /\ cjob' = [cjob EXCEPT ![c] = IF arm = "idle" THEN 0 ELSE j]
        /\ cfirst' = [cfirst EXCEPT ![c] = FirstJob(arm, j)]
        /\ cpc' = [cpc EXCEPT ![c] = arm]
        /\ queue' = IF out = "Ok" THEN Append(queue, j) ELSE queue
        /\ enq' = [enq EXCEPT ![j] = (out = "Ok")]
        /\ res' = IF arm = "idle" THEN [res EXCEPT ![j] = out] ELSE res
        /\ afterTerm' = Note(op)
        /\ UNCHANGED <<cfg, state, open, mutex, cstate, adds, runs, wrk,
                       stopCalled, tidied, notified, awaited, panicked>>

\* core.rs 263-269: after a successful enqueue
SentLoad(c) ==
    /\ cpc[c] = "sent"
    /\ IF WantsCore(state)
       THEN /\ cpc' = [cpc EXCEPT ![c] = "add_load"]
            /\ UNCHANGED <<res, cjob, cop>>
       ELSE /\ cpc' = [cpc EXCEPT ![c] = "idle"]
            /\ cop' = [cop EXCEPT ![c] = "none"]
            /\ res' = SetRes(cjob[c], "Ok")
            /\ cjob' = [cjob EXCEPT ![c] = 0]
    /\ UNCHANGED <<cfg, state, chan, mutex, cfirst, cstate, nops,
                   jop, late, enq, adds, runs, wrk, hist>>

\* The caller's side of add_worker returning `ok`.
AddDone(c, ok) ==
    LET pc == AddDonePc(cop[c], cfirst[c] # 0, ok)
    IN  /\ cpc' = [cpc EXCEPT ![c] = pc]
        /\ cop' = [cop EXCEPT ![c] = IF pc = "idle" THEN "none" ELSE cop[c]]
        /\ res' = SetRes(cjob[c], AddDoneRes(cop[c], cfirst[c] # 0, ok))
        /\ cjob' = [cjob EXCEPT ![c] = IF pc \in {"tx_send", "tx_send_timeout"} THEN cjob[c] ELSE 0]
        /\ cfirst' = [cfirst EXCEPT ![c] = 0]
        /\ cstate' = [cstate EXCEPT ![c] = [lifecycle |-> Running, wc |-> 0]]

\* Inner::add_worker, core.rs 329-350: the load and the first pass
AddLoad(c) ==
    /\ cpc[c] = "add_load"
    /\ IF Refused(state, cfirst[c] = 0)
       THEN AddDone(c, FALSE)
       ELSE /\ cstate' = [cstate EXCEPT ![c] = state]
            /\ cpc' = [cpc EXCEPT ![c] = "add_cas"]
            /\ UNCHANGED <<res, cjob, cfirst, cop>>
    /\ UNCHANGED <<cfg, state, chan, mutex, nops, jop, late, enq, adds,
                   runs, wrk, hist>>

\* Inner::add_worker, core.rs 352-370: the compare-and-swap, then the spawn
AddCas(c) ==
    /\ cpc[c] = "add_cas"
    /\ IF CasIncSucceeds(cstate[c])
       THEN /\ FreeSlots # {}
            /\ state' = WithWc(state, state.wc + 1)
            /\ wpc' = [wpc EXCEPT ![NewSlot] = IF cfirst[c] # 0 THEN "run" ELSE "recv"]
            /\ wjob' = [wjob EXCEPT ![NewSlot] = cfirst[c]]
            /\ adds' = IF cjob[c] = 0 THEN adds
                       ELSE [adds EXCEPT ![cjob[c]] = adds[cjob[c]] + 1]
            /\ AddDone(c, TRUE)
       ELSE /\ IF AfterCasFail(state, cstate[c].lifecycle, cfirst[c] = 0)
               THEN AddDone(c, FALSE)
               ELSE /\ cstate' = [cstate EXCEPT ![c] = state]
                    /\ UNCHANGED <<cpc, res, cjob, cfirst, cop>>
            /\ UNCHANGED <<state, wrk, adds>>
    /\ UNCHANGED <<cfg, chan, mutex, nops, jop, late, enq, runs, hist>>

\* Inner::add_worker, core.rs 352-370, when the thread cannot be created:
\* what worker.spawn(job) answers is dropped and Ok(()) is returned; the job
\* was moved into spawn. Whether spawn undoes the increment is not in
\* core.rs: either outcome.
AddCasSpawnFails(c) ==
    /\ cpc[c] = "add_cas"
    /\ CasIncSucceeds(cstate[c])
    /\ \E undone \in BOOLEAN :
          state' = IF undone THEN state ELSE WithWc(state, state.wc + 1)
    /\ adds' = IF cjob[c] = 0 THEN adds
               ELSE [adds EXCEPT ![cjob[c]] = adds[cjob[c]] + 1]
    /\ AddDone(c, TRUE)
    /\ UNCHANGED <<cfg, chan, mutex, nops, jop, late, enq, runs, wrk, hist>>

\* Sender::send, core.rs 248: the channel's blocking send
TxSend(c) ==
    /\ cpc[c] = "tx_send"
    /\ \/ /\ ~open
          /\ res' = SetRes(cjob[c], "Disconnected")
          /\ UNCHANGED <<queue, enq>>
       \/ /\ open /\ Len(queue) < queue_capacity
          /\ queue' = Append(queue, cjob[c])
          /\ enq' = [enq EXCEPT ![cjob[c]] = TRUE]
          /\ res' = SetRes(cjob[c], "Ok")
    /\ cpc' = [cpc EXCEPT ![c] = "idle"]
    /\ cop' = [cop EXCEPT ![c] = "none"]
    /\ cjob' = [cjob EXCEPT ![c] = 0]
    /\ UNCHANGED <<cfg, state, open, mutex, cfirst, cstate, nops, jop,
                   late, adds, runs, wrk, hist>>

\* Sender::send_timeout, core.rs 256: the channel's timed send
TxSendTimeout(c) ==
    /\ cpc[c] = "tx_send_timeout"
    /\ \/ /\ ~open
          /\ res' = SetRes(cjob[c], "Disconnected")
          /\ UNCHANGED <<queue, enq>>
       \/ /\ open /\ Len(queue) < queue_capacity
          /\ queue' = Append(queue, cjob[c])
          /\ enq' = [enq EXCEPT ![cjob[c]] = TRUE]
          /\ res' = SetRes(cjob[c], "Ok")
       \/ /\ open /\ Len(queue) >= queue_capacity
          /\ res' = SetRes(cjob[c], "Timeout")
          /\ UNCHANGED <<queue, enq>>
    /\ cpc' = [cpc EXCEPT ![c] = "idle"]
    /\ cop' = [cop EXCEPT ![c] = "none"]
    /\ cjob' = [cjob EXCEPT ![c] = 0]
    /\ UNCHANGED <<cfg, state, open, mutex, cfirst, cstate, nops, jop,
                   late, adds, runs, wrk, hist>>

\* ThreadPool::prestart_core_thread(s), core.rs 173-185: the call and its load
Prestart(c, op) ==
    /\ cpc[c] = "idle" /\ nops < MaxOps /\ op \in {"prestart", "prestart_all"}
    /\ nops' = nops + 1
    /\ cop' = [cop EXCEPT ![c] = IF WantsCore(state) THEN op ELSE "none"]
    /\ cpc' = [cpc EXCEPT ![c] = IF WantsCore(state) THEN "add_load" ELSE "idle"]
    /\ afterTerm' = Note(op)
    /\ UNCHANGED <<cfg, state, chan, mutex, cjob, cfirst, cstate, jobv, wrk,
                   stopCalled, tidied, notified, awaited, panicked>>

\* prestart_core_threads, core.rs 184: the next turn of the loop
PrestartAgain(c) ==
    /\ cpc[c] = "pre_load"
    /\ cpc' = [cpc EXCEPT ![c] = IF WantsCore(state) THEN "add_load" ELSE "idle"]
    /\ cop' = [cop EXCEPT ![c] = IF WantsCore(state) THEN cop[c] ELSE "none"]
    /\ UNCHANGED <<cfg, state, chan, mutex, cjob, cfirst, cstate, nops,
                   jobv, wrk, hist>>

\* ThreadPool::shutdown, core.rs 187-189
ShutdownCall(c) ==
    /\ cpc[c] = "idle" /\ nops < MaxOps
    /\ nops' = nops + 1
    /\ open' = FALSE
    /\ afterTerm' = Note("shutdown")
    /\ UNCHANGED <<cfg, state, queue, mutex, cpc, cop, cjob, cfirst, cstate, jobv,
                   wrk, stopCalled, tidied, notified, awaited, panicked>>

\* ThreadPool::shutdown_now, core.rs 192
ShutdownNowCall(c) ==
    /\ cpc[c] = "idle" /\ nops < MaxOps
    /\ nops' = nops + 1
    /\ cop' = [cop EXCEPT ![c] = "shutdown_now"]
    /\ cpc' = [cpc EXCEPT ![c] = "stop_cas"]
    /\ open' = FALSE
    /\ stopCalled' = TRUE
    /\ afterTerm' = Note("shutdown_now")
    /\ UNCHANGED <<cfg, state, queue, mutex, cjob, cfirst, cstate, jobv, wrk,
                   tidied, notified, awaited, panicked>>

\* core.rs 194: the transition shutdown_now asks for
ShutdownNowState_Store(s) == WithLifecycle(s, Stop)
ShutdownNowState(s) == TryTransitionToStop(s)

\* core.rs 194: try_transition_to_stop answers true both when it made the
\* transition and when the phase was already at least Stop, so the drain
\* loop follows.
StopCas(c) ==
    /\ cpc[c] = "stop_cas"
    /\ state' = ShutdownNowState(state)
    /\ cpc' = [cpc EXCEPT ![c] = "drain"]
    /\ UNCHANGED <<cfg, chan, mutex, cop, cjob, cfirst, cstate, nops, jobv,
                   wrk, hist>>

\* core.rs 195-200: one turn of the drain loop
Drain(c) ==
    /\ cpc[c] = "drain"
    /\ \/ /\ queue # <<>>
          /\ queue' = Tail(queue)
          /\ UNCHANGED <<cpc, cop>>
       \/ /\ queue = <<>> /\ ~open
          /\ cpc' = [cpc EXCEPT ![c] = "idle"]
          /\ cop' = [cop EXCEPT ![c] = "none"]
          /\ UNCHANGED queue
    /\ UNCHANGED <<cfg, state, open, mutex, cjob, cfirst, cstate, nops,
                   jobv, wrk, hist>>

\* ThreadPool::await_termination, core.rs 213
AwaitCall(c) ==
    /\ cpc[c] = "idle" /\ nops < MaxOps
    /\ mutex = "free"
    /\ mutex' = c
    /\ nops' = nops + 1
    /\ cop' = [cop EXCEPT ![c] = "await"]
    /\ cpc' = [cpc EXCEPT ![c] = "await_check"]
    /\ afterTerm' = Note("await")
    /\ UNCHANGED <<cfg, state, chan, cjob, cfirst, cstate, jobv, wrk,
                   stopCalled, tidied, notified, awaited, panicked>>

\* core.rs 215: the test of the loop; on Terminated the guard is dropped
AwaitCheck(c) ==
    /\ cpc[c] = "await_check"
    /\ IF state.lifecycle = Terminated
       THEN /\ cpc' = [cpc EXCEPT ![c] = "idle"]
            /\ cop' = [cop EXCEPT ![c] = "none"]
            /\ mutex' = "free"
            /\ awaited' = TRUE
       ELSE /\ cpc' = [cpc EXCEPT ![c] = "await_wait"]
            /\ UNCHANGED <<awaited, cop, mutex>>
    /\ UNCHANGED <<cfg, state, chan, cjob, cfirst, cstate, nops, jobv,
                   wrk, stopCalled, tidied, notified, panicked, afterTerm>>

\* core.rs 216: Condvar::wait releases the mutex and blocks
AwaitWait(c) ==
    /\ cpc[c] = "await_wait"
    /\ mutex' = "free"
    /\ cpc' = [cpc EXCEPT ![c] = "waiting"]
    /\ UNCHANGED <<cfg, state, chan, cop, cjob, cfirst, cstate, nops, jobv,
                   wrk, hist>>

\* Condvar::wait may return with no notification.
SpuriousWake(c) ==
    /\ cpc[c] = "waiting"
    /\ cpc' = [cpc EXCEPT ![c] = "woken"]
    /\ UNCHANGED <<cfg, state, chan, mutex, cop, cjob, cfirst, cstate, nops,
                   jobv, wrk, hist>>

\* Condvar::wait returning: the mutex is taken again (core.rs 216)
Relock(c) ==
    /\ cpc[c] = "woken"
    /\ mutex = "free"
    /\ mutex' = c
    /\ cpc' = [cpc EXCEPT ![c] = "await_check"]
    /\ UNCHANGED <<cfg, state, chan, cop, cjob, cfirst, cstate, nops, jobv,
                   wrk, hist>>

(* --------------------- workers (4.3; crate module worker) --------------- *)
\* Step 4 of the run loop: an idle worker leaves iff it is an overflow worker.
IdleExit(s) == s.wc > size

\* Steps 2, 3, 5: recv / recv_timeout
WRecv(w) ==
    /\ wpc[w] = "recv"
    /\ \/ /\ queue # <<>>
          /\ wjob' = [wjob EXCEPT ![w] = Head(queue)]
          /\ queue' = Tail(queue)
          /\ wpc' = [wpc EXCEPT ![w] = "run"]
       \/ /\ queue = <<>> /\ ~open
          /\ wpc' = [wpc EXCEPT ![w] = "exit"]
          /\ UNCHANGED <<queue, wjob>>
       \/ /\ queue = <<>> /\ open /\ timeout
          /\ wpc' = [wpc EXCEPT ![w] = "timedout"]
          /\ UNCHANGED <<queue, wjob>>
    /\ UNCHANGED <<cfg, state, open, mutex, cli, nops, jobv, hist>>

\* Step 4: the state word is read after the timeout
WTimedOut(w) ==
    /\ wpc[w] = "timedout"
    /\ wpc' = [wpc EXCEPT ![w] = IF IdleExit(state) THEN "exit" ELSE "recv"]
    /\ UNCHANGED <<cfg, state, chan, mutex, cli, nops, jobv, wjob, hist>>

\* Steps 1 and 3: job.run() returns (or its panic is caught)
WRun(w) ==
    /\ wpc[w] = "run"
    /\ runs' = [runs EXCEPT ![wjob[w]] = runs[wjob[w]] + 1]
    /\ wjob' = [wjob EXCEPT ![w] = 0]
    /\ wpc' = [wpc EXCEPT ![w] = "recv"]
    /\ UNCHANGED <<cfg, state, chan, mutex, cli, nops, jop, res, late, enq,
                   adds, hist>>

\* Step 3: job.run() panics; the panic is caught and the loop goes on.
WRunPanics(w) ==
    /\ wpc[w] = "run"
    /\ runs' = [runs EXCEPT ![wjob[w]] = runs[wjob[w]] + 1]
    /\ wjob' = [wjob EXCEPT ![w] = 0]
    /\ wpc' = [wpc EXCEPT ![w] = "recv"]
    /\ panicked' = TRUE
    /\ UNCHANGED <<cfg, state, chan, mutex, cli, nops, jop, res, late, enq,
                   adds, stopCalled, tidied, notified, awaited, afterTerm>>

\* Exit sequence: dec_worker_count, then finalize if it was the last worker
\* and the phase is at least Shutdown.
WExit(w) ==
    LET new == WithWc(state, state.wc - 1)
    IN  /\ wpc[w] = "exit"
        /\ state.wc > 0
        /\ state' = new
        /\ wpc' = [wpc EXCEPT ![w] =
              IF new.wc = 0 /\ new.lifecycle >= Shutdown THEN "finalize" ELSE "gone"]
        /\ UNCHANGED <<cfg, chan, mutex, cli, nops, jobv, wjob, hist>>

(* ------------------------- finalize_instance ---------------------------- *)
\* core.rs 374: what finalize_instance does on try_transition_to_tidying's answer
FinalizeArm_Negated(ok) == IF ok THEN "gone" ELSE "terminate"
FinalizeArm(ok) == IF ok THEN "terminate" ELSE "gone"

\* core.rs 374
WFinalize(w) ==
    /\ wpc[w] = "finalize"
    /\ state' = IF CanTidy(state) THEN WithLifecycle(state, Tidying) ELSE state
    /\ tidied' = IF CanTidy(state) THEN tidied + 1 ELSE tidied
    /\ wpc' = [wpc EXCEPT ![w] = FinalizeArm(CanTidy(state))]
    /\ UNCHANGED <<cfg, chan, mutex, cli, nops, jobv, wjob, stopCalled,
                   notified, awaited, panicked, afterTerm>>

\* core.rs 375
WTerminate(w) ==
    /\ wpc[w] = "terminate"
    /\ state' = WithLifecycle(state, Terminated)
    /\ wpc' = [wpc EXCEPT ![w] = "notify"]
    /\ UNCHANGED <<cfg, chan, mutex, cli, nops, jobv, wjob, hist>>

\* core.rs 377: notify_all, the mutex not held
WNotify(w) ==
    /\ wpc[w] = "notify"
    /\ cpc' = [c \in Clients |-> IF cpc[c] = "waiting" THEN "woken" ELSE cpc[c]]
    /\ notified' = notified + 1
    /\ wpc' = [wpc EXCEPT ![w] = "gone"]
    /\ UNCHANGED <<cfg, state, chan, mutex, cop, cjob, cfirst, cstate, nops,
                   jobv, wjob, stopCalled, tidied, awaited, panicked, afterTerm>>

(* ---------------------------- specification ----------------------------- *)
\* Every client step but the start of a submission.
OtherStep(c) ==
    \/ SentLoad(c)
    \/ AddLoad(c)
    \/ AddCas(c)
    \/ TxSend(c)
    \/ TxSendTimeout(c)
    \/ \E op \in {"prestart", "prestart_all"} : Prestart(c, op)
    \/ PrestartAgain(c)
    \/ ShutdownCall(c)
    \/ ShutdownNowCall(c)
    \/ StopCas(c)
    \/ Drain(c)
    \/ AwaitCall(c)
    \/ AwaitCheck(c)
    \/ AwaitWait(c)
    \/ SpuriousWake(c)
    \/ Relock(c)

ClientStep(c) ==
    \/ \E op \in SendOps : Submit(c, op)
    \/ OtherStep(c)

\* The steps a thread inside a call takes when it is scheduled.
Progress(c) ==
    \/ SentLoad(c)
    \/ AddLoad(c)
    \/ AddCas(c)
    \/ TxSend(c)
    \/ TxSendTimeout(c)
    \/ PrestartAgain(c)
    \/ StopCas(c)
    \/ Drain(c)
    \/ AwaitCheck(c)
    \/ AwaitWait(c)
    \/ Relock(c)

WorkerStep(w) ==
    \/ WRecv(w)
    \/ WTimedOut(w)
    \/ WRun(w)
    \/ WExit(w)
    \/ WFinalize(w)
    \/ WTerminate(w)
    \/ WNotify(w)

Next ==
    \/ \E c \in Clients : ClientStep(c)
    \/ \E w \in Slots : WorkerStep(w)

Spec == Init /\ [][Next]_vars

\* Threads inside a call and worker threads are scheduled again and again.
FairSpec ==
    /\ Spec
    /\ \A c \in Clients : WF_vars(Progress(c))
    /\ \A w \in Slots : WF_vars(WorkerStep(w))

\* The pool when thread creation can fail.
NextSpawnFail ==
    \/ Next
    \/ \E c \in Clients : AddCasSpawnFails(c)

SpecSpawnFail == Init /\ [][NextSpawnFail]_vars

\* The pool when a job's run() can panic.
NextPanic ==
    \/ Next
    \/ \E w \in Slots : WRunPanics(w)

SpecPanic == Init /\ [][NextPanic]_vars

\* The pool with a single producer: only Producer submits jobs; every
\* client may call the other operations.
Producer == "c1"

NextFifo ==
    \/ \E op \in SendOps : Submit(Producer, op)
    \/ \E c \in Clients : OtherStep(c)
    \/ \E w \in Slots : WorkerStep(w)

SpecFifo == Init /\ [][NextFifo]_vars

(* ------------------------------ properties ------------------------------ *)
Copies(j) == Cardinality({i \in 1..Len(queue) : queue[i] = j})
              + Cardinality({w \in Slots : wpc[w] = "run" /\ wjob[w] = j})
Submitted(j) == jop[j] # "none"
Accepted(j) == res[j] = "Ok"
HandedBack(j) == res[j] \in {"Full", "Timeout", "Disconnected"}
InCall(j) == \E c \in Clients : cjob[c] = j
Live(w) == wpc[w] # "gone"
Quiet == /\ \A c \in Clients : cpc[c] \in {"idle", "waiting"}
         /\ \A w \in Slots : ~Live(w)

\* C1: with shutdown_now() never called, a job whose submission returned Ok
\* is run exactly once: until it has run it is held exactly once, in the
\* queue or by the worker it was attached to or that dequeued it; once run
\* it is held nowhere; no job is ever run twice; and when the pool is
\* Terminated, or closed with every worker gone and the queue empty, every
\* accepted job has run.
C1_ExactlyOnce ==
    /\ \A j \in Jobs : runs[j] <= 1
    /\ ~stopCalled =>
         \A j \in Jobs : Accepted(j) => runs[j] + Copies(j) = 1
    /\ (~stopCalled /\ (state.lifecycle = Terminated
                         \/ (~open /\ queue = <<>> /\ \A w \in Slots : ~Live(w))))
         => \A j \in Jobs : Accepted(j) => runs[j] = 1

C1_Witness ==
    /\ ~stopCalled /\ ~open /\ queue = <<>> /\ \A w \in Slots : ~Live(w)
    /\ \E j, k \in Jobs :
         /\ Accepted(j) /\ enq[j] /\ runs[j] = 1
         /\ Accepted(k) /\ ~enq[k] /\ adds[k] = 1 /\ runs[k] = 1

\* C2: once the phase is Terminated, and so whenever await_termination()
\* has returned, no worker is inside run() or holds a job.
C2_TerminatedNoRun ==
    /\ awaited => state.lifecycle = Terminated
    /\ state.lifecycle = Terminated =>
         \A w \in Slots : wpc[w] # "run" /\ wjob[w] = 0

C2_Witness ==
    /\ awaited
    /\ \E j \in Jobs : runs[j] = 1

\* C3: after shutdown() the pool ends Terminated with the queue empty and
\* every accepted job run: when nothing is left to take a step.
C3_ShutdownTerminates ==
    (~open /\ ~stopCalled /\ Quiet) =>
        /\ state.lifecycle = Terminated
        /\ queue = <<>>
        /\ \A j \in Jobs : Accepted(j) => runs[j] = 1

\* C4: no lost wake-up: no thread is blocked in the wait of
\* await_termination() once the phase is Terminated and notify_all was called.
C4_NoLostWakeup ==
    \A c \in Clients :
        ~(cpc[c] = "waiting" /\ state.lifecycle = Terminated /\ notified >= 1)

Min(a, b) == IF a <= b THEN a ELSE b

\* C5: 0 <= worker_count <= min(max_size, CAPACITY) in every state, at most
\* max_size jobs execute at once, and an add_worker call with no job never
\* takes worker_count past size.
C5_WorkerCountBound ==
    /\ [](/\ state.wc >= 0
          /\ state.wc <= Min(max_size, CAPACITY)
          /\ Cardinality({w \in Slots : wpc[w] = "run"}) <= max_size)
    /\ [][\A c \in Clients :
            (cpc[c] = "add_cas" /\ cpc'[c] # "add_cas" /\ cfirst[c] = 0
               /\ state'.wc = state.wc + 1) => state'.wc <= size]_vars

C5_Witness ==
    /\ state.wc = max_size
    /\ max_size > 1
    /\ \E c \in Clients : cpc[c] = "add_cas" /\ cstate[c].wc = max_size - 1

\* C6: the lifecycle phase never decreases, and no step changes it once it
\* is Terminated.
C6_LifecycleMonotonic ==
    [][/\ state'.lifecycle >= state.lifecycle
       /\ state.lifecycle = Terminated => state'.lifecycle = Terminated]_vars

C6_Witness ==
    /\ state.lifecycle = Terminated
    /\ "shutdown_now" \in afterTerm
    /\ \A c \in Clients : cpc[c] = "idle"

\* C7: Tidying is entered only from Shutdown or Stop with worker_count 0,
\* at most once; the one worker that entered it, and no other, goes on to
\* Terminated and notify_all; Terminated is entered only from Tidying.
C7_TidyingOnce ==
    /\ [](/\ tidied <= 1
          /\ tidied = notified
                + Cardinality({w \in Slots : wpc[w] \in {"terminate", "notify"}})
          /\ notified >= 1 => state.lifecycle = Terminated)
    /\ [][(state'.lifecycle = Tidying /\ state.lifecycle # Tidying)
            => (state.wc = 0 /\ state.lifecycle \in {Shutdown, Stop})]_vars
    /\ [][(state'.lifecycle = Terminated /\ state.lifecycle # Terminated)
            => state.lifecycle = Tidying]_vars

C7_Witness ==
    /\ tidied = 1 /\ notified = 1
    /\ state.lifecycle = Terminated

\* C8: a submission made after the queue was closed returns Disconnected;
\* its job is never enqueued, never run, never given to a worker, and the
\* call spawns no worker.
C8_SendAfterShutdown ==
    \A j \in Jobs : late[j] =>
        /\ res[j] = "Disconnected"
        /\ ~enq[j] /\ runs[j] = 0 /\ Copies(j) = 0
        /\ adds[j] = 0

C8_Witness ==
    /\ ~stopCalled
    /\ state.wc < size
    /\ \E j, k \in Jobs : Accepted(k) /\ late[j] /\ jop[j] \in SendOps

\* C9: every finished submission has a result; a job handed back in Full,
\* Timeout or Disconnected is not in the queue, not with a worker and never
\* run; send returns only Ok or Disconnected, try_send never Timeout.
C9_NoLossWithoutReport ==
    \A j \in Jobs :
        /\ (Submitted(j) /\ ~InCall(j)) => (Accepted(j) \/ HandedBack(j))
        /\ HandedBack(j) => (runs[j] = 0 /\ Copies(j) = 0)
        /\ jop[j] = "send" => res[j] \in {"none", "Ok", "Disconnected"}
        /\ jop[j] = "try_send" => res[j] # "Timeout"

C9_Witness ==
    /\ ~stopCalled
    /\ \E j, k \in Jobs :
         /\ jop[j] = "send" /\ ~late[j] /\ ~enq[j] /\ adds[j] = 0
         /\ res[j] = "Disconnected"
         /\ jop[k] = "send" /\ Accepted(k)

\* C10: after shutdown_now() has returned and nothing is left to take a
\* step, the pool is Terminated with an empty queue, and no job has run
\* that was not submitted.
C10_StopTerminates ==
    (stopCalled /\ Quiet) =>
        /\ state.lifecycle = Terminated
        /\ queue = <<>>
        /\ \A j \in Jobs : runs[j] > 0 => Submitted(j)

\* C11: after shutdown() has returned the queue is closed and the phase is
\* at least Shutdown.
C11_ShutdownPhase ==
    (~open /\ ~stopCalled) => state.lifecycle >= Shutdown

\* The step in which client c's add_worker call succeeds.
AddSucceeds(c) ==
    cpc[c] = "add_cas" /\ cpc'[c] # "add_cas" /\ state'.wc = state.wc + 1

\* C13: a submission that found the queue full returns Ok exactly when its
\* add_worker(Some(job)) raised worker_count, at worker_count < max_size and
\* phase < Stop; the job is then never in the queue and the new worker
\* starts in run() with it; otherwise try_send returns Full(job) and the
\* returning step leaves the state word and the queue as they are.
C13_OverflowFastPath ==
    /\ [](\A j \in Jobs :
            /\ res[j] = "Full" => (~enq[j] /\ adds[j] = 0)
            /\ (adds[j] = 1 /\ ~enq[j]) =>
                 /\ res[j] = "Ok"
                 /\ runs[j] + Cardinality({w \in Slots : wpc[w] = "run" /\ wjob[w] = j}) = 1
                 /\ \A i \in 1..Len(queue) : queue[i] # j
            /\ (jop[j] = "try_send" /\ res[j] = "Ok" /\ ~enq[j]) => adds[j] = 1)
    /\ [][\A c \in Clients : (AddSucceeds(c) /\ cfirst[c] # 0) =>
            /\ state.wc < max_size /\ state.lifecycle < Stop
            /\ queue' = queue
            /\ res'[cfirst[c]] = "Ok"
            /\ \E w \in Slots : /\ wpc[w] = "gone" /\ wpc'[w] = "run"
                                /\ wjob'[w] = cfirst[c]]_vars
    /\ [][\A j \in Jobs : (res'[j] = "Full" /\ res[j] # "Full") =>
            (state' = state /\ queue' = queue)]_vars

C13_Witness ==
    \E j, k \in Jobs :
        /\ jop[j] = "try_send" /\ res[j] = "Ok" /\ ~enq[j] /\ adds[j] = 1
        /\ runs[j] = 1
        /\ jop[k] = "try_send" /\ res[k] = "Full"

\* Every operation so far was a submission that was enqueued at once and
\* has returned Ok, on an open queue.
OnlyEnqueuedSends ==
    /\ open /\ state.lifecycle = Running
    /\ \A c \in Clients : cpc[c] = "idle"
    /\ \A j \in 1..nops : enq[j] /\ Accepted(j) /\ jop[j] \in SendOps

IdleWorkers == {w \in Slots : wpc[w] \in {"recv", "timedout"}}

\* C14: a fresh pool is Running with worker_count 0; worker_count rises
\* only in add_worker, called with no job at worker_count < size (prestart,
\* or a submission already enqueued) or with the job of a submission that
\* found the queue full at worker_count < max_size; after k submissions
\* that were all enqueued, worker_count = min(k, size), and while k <= size
\* and no job has returned every queued job has an idle worker to take it.
C14_LazyProvisioning ==
    /\ [](/\ nops = 0 => state = [lifecycle |-> Running, wc |-> 0]
          /\ OnlyEnqueuedSends => state.wc = Min(nops, size)
          /\ (OnlyEnqueuedSends /\ nops <= size /\ \A j \in Jobs : runs[j] = 0)
                => Cardinality(IdleWorkers) = Len(queue))
    /\ [][state'.wc > state.wc =>
            \E c \in Clients :
               /\ AddSucceeds(c)
               /\ IF cfirst[c] = 0
                  THEN /\ state.wc < size
                       /\ cop[c] \in {"prestart", "prestart_all"} \/ enq[cjob[c]]
                  ELSE /\ state.wc < max_size
                       /\ ~enq[cfirst[c]]]_vars

C14_Witness ==
    /\ OnlyEnqueuedSends
    /\ size = 2 /\ nops = 2 /\ state.wc = 2
    /\ Cardinality({w \in Slots : wpc[w] = "run"}) = 2

\* C16: on a Running pool with an open queue, once worker_count has reached
\* size no step takes it below size.
C16_CoreWorkersStay ==
    [][(open /\ open' /\ state.lifecycle = Running /\ state'.lifecycle = Running
          /\ state.wc >= size) => state'.wc >= size]_vars

\* C18: an add_worker call with a job that reads the state when the phase
\* is at least Stop, or after shutdown() with the queue drained, is refused:
\* it does not go on to the compare-and-swap.
C18_RefusesLateWork ==
    [][\A c \in Clients :
         (/\ cpc[c] = "add_load" /\ cfirst[c] # 0 /\ cpc'[c] # "add_load"
          /\ state.lifecycle >= Stop \/ (~open /\ ~stopCalled /\ queue = <<>>))
         => cpc'[c] # "add_cas"]_vars

\* C19: with the phase Tidying or Terminated, worker_count is 0 and no
\* worker is in its run loop or about to decrement.
C19_TerminatedNoWorkers ==
    state.lifecycle >= Tidying =>
        /\ state.wc = 0
        /\ \A w \in Slots : wpc[w] \notin {"recv", "run", "timedout", "exit"}

C19_Witness ==
    /\ state.lifecycle >= Tidying
    /\ \E c \in Clients : cpc[c] = "add_cas" /\ cstate[c].lifecycle = Running

\* Workers counted in worker_count: in the run loop or about to decrement.
InLoop == {w \in Slots : wpc[w] \in {"recv", "run", "timedout", "exit"}}

\* C12: when the thread cannot be created the increment is undone, so
\* worker_count counts exactly the workers there are, and the job offered
\* with a full queue is not lost: it is not reported Ok while held nowhere
\* and never run.
C12_SpawnFailureRolledBack ==
    /\ state.wc = Cardinality(InLoop)
    /\ \A j \in Jobs :
         (~stopCalled /\ res[j] = "Ok" /\ ~enq[j] /\ adds[j] = 1)
            => runs[j] + Copies(j) = 1

Begun(j) == runs[j] > 0 \/ \E w \in Slots : wpc[w] = "run" /\ wjob[w] = j

C17_PanicContained ==
    /\ panicked => state.wc = Cardinality(InLoop)
    /\ (panicked /\ ~open /\ ~stopCalled /\ Quiet) =>
          (state.lifecycle = Terminated /\ queue = <<>>)

PrestartOps == {"prestart", "prestart_all"}

\* The step in which client c's prestart call answers false after add_worker
\* or the loop's test, and the step of a call that answers false at once
\* (on an open queue no other call leaves all of these unchanged).
PrestartFalse(c) == cop[c] \in PrestartOps /\ cop'[c] = "none" /\ ~AddSucceeds(c)
PrestartFalseAtCall ==
    open /\ nops' = nops + 1 /\ UNCHANGED <<cli, chan, mutex, jobv>>

\* C20: prestart_core_thread answers true exactly when it raised
\* worker_count by one (prestart_core_threads then goes round again), and
\* false with the state word and the queue unchanged, at worker_count >=
\* size or phase >= Stop; called alone on a fresh pool prestart_core_threads
\* leaves worker_count = size and the queue empty; and every
\* prestart_core_threads call returns.
C20_PrestartCoreThreads ==
    /\ [][\A c \in Clients :
            /\ (cop[c] = "prestart_all" /\ cpc[c] # "pre_load" /\ cpc'[c] = "pre_load")
                 => /\ AddSucceeds(c)
                    /\ state.wc < size /\ state.lifecycle < Stop
                    /\ queue' = queue
            /\ (cop[c] \in PrestartOps /\ AddSucceeds(c))
                 => cpc'[c] = IF cop[c] = "prestart_all" THEN "pre_load" ELSE "idle"
            /\ (PrestartFalse(c) \/ PrestartFalseAtCall)
                 => /\ state' = state /\ queue' = queue
                    /\ state.wc >= size \/ state.lifecycle >= Stop
            /\ (nops = 1 /\ cop[c] = "prestart_all" /\ cop'[c] = "none")
                 => (state'.wc = size /\ queue' = <<>>)]_vars
    /\ \A c \in Clients : (cop[c] = "prestart_all") ~> (cop[c] # "prestart_all")

====
